---------------------------- MODULE Spec2Model ----------------------------
(***************************************************************************)
(* Model of the base account's Authenticate flow                           *)
(* (x/accounts/defaults/base/account.go).                                  *)
(*                                                                         *)
(* State: per account the stored public key (collections.Item) and the    *)
(* sequence counter (collections.Sequence).  One Authenticate call is one *)
(* action (specification Spec); ConcSpec splits the call at the sequence   *)
(* fetch-and-increment so that two attempts on one account interleave.    *)
(***************************************************************************)
EXTENDS Integers, Sequences, FiniteSets, TLC

\* ------------------------------------------------------------------ bounds
\* Calls are dispatched while the counter of the account is below MaxSeq.
MaxSeq == 2

Seqs == 0..MaxSeq
NoSeq == 0 - 1

\* ------------------------------------------------------------ environment
Accounts == {"a1", "a2"}
AccountsModule == "accounts"
Callers == {AccountsModule, "bank"}
AttackerKey == "pkX"
StoredKey == [a \in Accounts |-> IF a = "a1" THEN "pk1" ELSE "pk2"]

\* Collaborator failures a call can meet, at most one per call.
Faults == {"none", "addr", "seq", "pubkey", "any", "accnum"}

\* header.Service.GetHeaderInfo(ctx).ChainID
GetChainID == "chain-1"

\* accountstd.Whoami(ctx): the raw address bytes of the executing account.
Whoami(acct) == [raw |-> acct]

\* addrCodec.BytesToString
BytesToString(env, bz) ==
    IF env.fault = "addr"
    THEN [err |-> "AddressCodecError", str |-> ""]
    ELSE [err |-> "", str |-> "cosmos1" \o bz.raw]

\* The account registry behind accountstd.QueryModule[AccountNumberResponse].
RegistryNumber(addrStr) == IF addrStr = "cosmos1a1" THEN 11 ELSE 12

\* ------------------------------------------------------------- wire format
\* An encoded byte string is the value it encodes plus whether the encoding is
\* the canonical one; Garbage decodes to nothing.
Garbage == [garbage |-> TRUE]
Encoded(v, canonical) == [garbage |-> FALSE, content |-> v, canonical |-> canonical]

\* proto.Unmarshal
Unmarshal(bz) ==
    IF bz.garbage THEN [err |-> "DecodeError", value |-> [none |-> TRUE]]
    ELSE [err |-> "", value |-> bz.content]

\* proto.Marshal: always the canonical encoding.
Marshal(v) == Encoded(v, TRUE)

TheBody == [memo |-> "m"]
BodyBytesSet == {Encoded(TheBody, TRUE), Encoded(TheBody, FALSE), Garbage}

AuthInfoOf(s) == [signerSequence |-> s]

\* ------------------------------------------------------------ sign modes
RegisteredModes == {"DIRECT", "TEXTUAL"}
SignModes == RegisteredModes \cup {"LEGACY_AMINO_JSON"}

\* tx.ModeInfo as found in a signer-info: a nil pointer, an unset oneof, a
\* Multi descriptor, a Single wrapper holding nil, or Single{Mode}.
NilModeInfo == [kind |-> "nil"]
ModeInfos ==
    {NilModeInfo, [kind |-> "unset"], [kind |-> "multi"], [kind |-> "single_nil"]}
    \cup {[kind |-> "single", mode |-> m] : m \in SignModes}

IsSingle(info) == info.kind \in {"single", "single_nil"}


\* ------------------------------------------------------------- signatures
\* The bytes a signing handler produces for (mode, SignerData, TxData): a pure,
\* injective function of the mode, the signer data and the raw byte strings.
HandlerSignBytes(mode, signerData, txData) ==
    [mode |-> mode, signer |-> signerData,
     body |-> txData.BodyBytes, authInfo |-> txData.AuthInfoBytes]

\* signing.HandlerMap.GetSignBytes: the handler registered for the mode, or an
\* error when there is none.
GetSignBytes(mode, signerData, txData) ==
    IF mode \in RegisteredModes
    THEN [err |-> "", bytes |-> HandlerSignBytes(mode, signerData, txData)]
    ELSE [err |-> "NoHandler", bytes |-> [none |-> TRUE]]

\* A signature is what the holder of a key signed; a flipped one has a bit
\* altered after signing.
Sign(key, bytes) == [signer |-> key, over |-> bytes, flipped |-> FALSE]
Flip(sig) == [sig EXCEPT !.flipped = TRUE]

\* secp256k1.PubKey.VerifySignature
VerifySignature(pk, signBytes, sig) ==
    /\ sig.signer = pk
    /\ sig.over = signBytes
    /\ ~sig.flipped

\* codectypes.NewAnyWithValue(&pk)
NewAnyWithValue(env, pk) ==
    IF env.fault = "any"
    THEN [err |-> "PackAnyError", TypeUrl |-> "", Value |-> Garbage]
    ELSE [err |-> "", TypeUrl |-> "/cosmos.crypto.secp256k1.PubKey",
          Value |-> Marshal(pk)]

\* signing.SignerData{} and secp256k1.PubKey{}: the zero values returned
\* beside an error.
ZeroSignerData ==
    [Address |-> "", ChainID |-> "", AccountNumber |-> 0, Sequence |-> 0,
     PubKey |-> [TypeUrl |-> "", Value |-> Garbage]]
ZeroPubKey == ""
ZeroTxData ==
    [Body |-> [none |-> TRUE], AuthInfo |-> [none |-> TRUE],
     BodyBytes |-> Garbage, AuthInfoBytes |-> Garbage,
     BodyHasUnknownNonCriticals |-> FALSE]

\* accountstd.SenderIsAccountsModule
SenderIsAccountsModule(caller) == caller = AccountsModule

SequenceNext_ReadOnly(env, seq) ==
    IF env.fault = "seq"
    THEN [err |-> "SequenceStoreError", value |-> 0, stored |-> seq]
    ELSE [err |-> "", value |-> seq, stored |-> seq]

\* collections.Sequence.Next: returns the stored value and stores its
\* successor, as one step; a store failure returns an error and stores nothing.
SequenceNext(env, seq) ==
    IF env.fault = "seq"
    THEN [err |-> "SequenceStoreError", value |-> 0, stored |-> seq]
    ELSE [err |-> "", value |-> seq, stored |-> seq + 1]

\* collections.Item.Get on the PubKey item
PubKeyGet(env, item) ==
    IF env.fault = "pubkey"
    THEN [err |-> "PubKeyStoreError", pk |-> ZeroPubKey]
    ELSE [err |-> "", pk |-> item]

\* Account.getNumber
getNumber(env, addrStr) ==
    IF env.fault = "accnum"
    THEN [err |-> "AccountNumberError", number |-> 0]
    ELSE [err |-> "", number |-> RegistryNumber(addrStr)]

\* computeSignerData's sequence step: wantSequence, err := a.Sequence.Next(ctx)
nextSequence_Peek(env, seq) ==
    [err |-> SequenceNext(env, seq).err, value |-> seq, stored |-> seq]
nextSequence_Twice(env, seq) ==
    [err |-> SequenceNext(env, seq).err, value |-> SequenceNext(env, seq).value,
     stored |-> SequenceNext(env, SequenceNext(env, seq).stored).stored]
nextSequence(env, seq) == SequenceNext(env, seq)

\* Account.computeSignerData up to the sequence step: address string, chain id.
signerDataPrefix(acct, env) ==
    LET addr == BytesToString(env, Whoami(acct))
    IN  [err |-> addr.err, addrStr |-> addr.str, chainID |-> GetChainID]

signerDataSuffix_PostIncrement(env, item, addrStr, chainID, wantSequence) ==
    LET got == PubKeyGet(env, item)
        pkAny == NewAnyWithValue(env, got.pk)
        num == getNumber(env, addrStr)
        failed(e) == [err |-> e, pk |-> ZeroPubKey, signerData |-> ZeroSignerData]
    IN  IF got.err # "" THEN failed(got.err)
        ELSE IF pkAny.err # "" THEN failed(pkAny.err)
        ELSE IF num.err # "" THEN failed(num.err)
        ELSE [err |-> "", pk |-> got.pk,
              signerData |->
                [Address |-> addrStr, ChainID |-> chainID,
                 AccountNumber |-> num.number, Sequence |-> wantSequence + 1,
                 PubKey |-> [TypeUrl |-> pkAny.TypeUrl, Value |-> pkAny.Value]]]

\* Account.computeSignerData after the sequence step: public key, its Any,
\* the account number, and the SignerData record.
signerDataSuffix(env, item, addrStr, chainID, wantSequence) ==
    LET got == PubKeyGet(env, item)
        pkAny == NewAnyWithValue(env, got.pk)
        num == getNumber(env, addrStr)
        failed(e) == [err |-> e, pk |-> ZeroPubKey, signerData |-> ZeroSignerData]
    IN  IF got.err # "" THEN failed(got.err)
        ELSE IF pkAny.err # "" THEN failed(pkAny.err)
        ELSE IF num.err # "" THEN failed(num.err)
        ELSE [err |-> "", pk |-> got.pk,
              signerData |->
                [Address |-> addrStr, ChainID |-> chainID,
                 AccountNumber |-> num.number, Sequence |-> wantSequence,
                 PubKey |-> [TypeUrl |-> pkAny.TypeUrl, Value |-> pkAny.Value]]]

computeSignerData_RollbackOnError(acct, env, seq, item) ==
    LET pre == signerDataPrefix(acct, env)
        nxt == nextSequence(env, seq)
        suf == signerDataSuffix(env, item, pre.addrStr, pre.chainID, nxt.value)
        failed(e, after, used) ==
            [err |-> e, pk |-> ZeroPubKey, signerData |-> ZeroSignerData,
             seqAfter |-> after, consumed |-> used]
    IN  IF pre.err # "" THEN failed(pre.err, seq, NoSeq)
        ELSE IF nxt.err # "" THEN failed(nxt.err, nxt.stored, NoSeq)
        ELSE IF suf.err # "" THEN failed(suf.err, seq, NoSeq)
        ELSE [err |-> "", pk |-> suf.pk, signerData |-> suf.signerData,
              seqAfter |-> nxt.stored, consumed |-> nxt.value]

\* Account.computeSignerData: seq is the counter as stored when the call
\* starts, item the stored public key.  seqAfter is the counter it leaves,
\* consumed the value Next returned (NoSeq when Next did not return one).
computeSignerData(acct, env, seq, item) ==
    LET pre == signerDataPrefix(acct, env)
        nxt == nextSequence(env, seq)
        suf == signerDataSuffix(env, item, pre.addrStr, pre.chainID, nxt.value)
        failed(e, after, used) ==
            [err |-> e, pk |-> ZeroPubKey, signerData |-> ZeroSignerData,
             seqAfter |-> after, consumed |-> used]
    IN  IF pre.err # "" THEN failed(pre.err, seq, NoSeq)
        ELSE IF nxt.err # "" THEN failed(nxt.err, nxt.stored, NoSeq)
        ELSE IF suf.err # "" THEN failed(suf.err, nxt.stored, nxt.value)
        ELSE [err |-> "", pk |-> suf.pk, signerData |-> suf.signerData,
              seqAfter |-> nxt.stored, consumed |-> nxt.value]

getTxData_Reencode(msg) ==
    LET body == Unmarshal(msg.RawTx.BodyBytes)
        auth == Unmarshal(msg.RawTx.AuthInfoBytes)
    IN  IF body.err # "" THEN [err |-> body.err, txData |-> ZeroTxData]
        ELSE IF auth.err # "" THEN [err |-> auth.err, txData |-> ZeroTxData]
        ELSE [err |-> "",
              txData |->
                [Body |-> body.value, AuthInfo |-> auth.value,
                 BodyBytes |-> Marshal(body.value),
                 AuthInfoBytes |-> Marshal(auth.value),
                 BodyHasUnknownNonCriticals |-> FALSE]]

\* Account.getTxData
getTxData(msg) ==
    LET body == Unmarshal(msg.RawTx.BodyBytes)
        auth == Unmarshal(msg.RawTx.AuthInfoBytes)
    IN  IF body.err # "" THEN [err |-> body.err, txData |-> ZeroTxData]
        ELSE IF auth.err # "" THEN [err |-> auth.err, txData |-> ZeroTxData]
        ELSE [err |-> "",
              txData |->
                [Body |-> body.value, AuthInfo |-> auth.value,
                 BodyBytes |-> msg.RawTx.BodyBytes,
                 AuthInfoBytes |-> msg.RawTx.AuthInfoBytes,
                 BodyHasUnknownNonCriticals |-> FALSE]]

parseSignMode_AcceptMulti(info) ==
    IF info.kind \in {"nil", "single_nil"} THEN [outcome |-> "panic", mode |-> ""]
    ELSE IF info.kind = "single" THEN [outcome |-> "ok", mode |-> info.mode]
    ELSE IF info.kind = "multi" THEN [outcome |-> "ok", mode |-> "DIRECT"]
    ELSE [outcome |-> "err", mode |-> ""]

\* parseSignMode: info.Sum of a nil *ModeInfo and single.Single.Mode of a nil
\* Single are nil dereferences; a Sum that is not ModeInfo_Single_ is an error.
parseSignMode(info) ==
    IF info.kind \in {"nil", "single_nil"} THEN [outcome |-> "panic", mode |-> ""]
    ELSE IF info.kind = "single" THEN [outcome |-> "ok", mode |-> info.mode]
    ELSE [outcome |-> "err", mode |-> ""]

\* A Go slice index s[i]: in range or a run-time panic.
InRange(s, i) == i + 1 \in DOMAIN s
At(s, i) == s[i + 1]

\* Authenticate's guards, one per early return.
callerRejected_Never(caller) == FALSE
callerRejected(caller) == ~SenderIsAccountsModule(caller)

sequenceMismatch_OnlyAhead(gotSeq, signerData) == gotSeq > signerData.Sequence
sequenceMismatch(gotSeq, signerData) == gotSeq # signerData.Sequence

signatureRejected_Never(pk, signBytes, signature) == FALSE
signatureRejected(pk, signBytes, signature) ==
    ~VerifySignature(pk, signBytes, signature)

\* What a call leaves behind besides the counter: its result, the steps it ran
\* in order, and the values it built on the way.
NoBytes == [none |-> TRUE]
Outcome(result, steps, pk, signerData, txData, signBytes) ==
    [result |-> result, steps |-> steps, pk |-> pk, signerData |-> signerData,
     txData |-> txData, signBytes |-> signBytes]

authenticateTail_ModeBeforeSequence(msg, pk, signerData) ==
    LET td == getTxData(msg)
        infos == msg.Tx.AuthInfo.SignerInfos
        sigs == msg.Tx.Signatures
        idx == msg.SignerIndex
        gotSeq == At(infos, idx).Sequence
        sm == parseSignMode(At(infos, idx).ModeInfo)
        signature == At(sigs, idx)
        sb == GetSignBytes(sm.mode, signerData, td.txData)
        done(r, steps, bytes) == Outcome(r, steps, pk, signerData, td.txData, bytes)
    IN  IF td.err # "" THEN done(td.err, <<"caller", "signerData", "txData">>, NoBytes)
        ELSE IF ~InRange(infos, idx)
        THEN done("panic", <<"caller", "signerData", "txData", "signMode">>, NoBytes)
        ELSE IF sm.outcome = "panic"
        THEN done("panic", <<"caller", "signerData", "txData", "signMode">>, NoBytes)
        ELSE IF sm.outcome = "err"
        THEN done("ParseSignModeError",
                  <<"caller", "signerData", "txData", "signMode">>, NoBytes)
        ELSE IF sequenceMismatch(gotSeq, signerData)
        THEN done("SequenceMismatch",
                  <<"caller", "signerData", "txData", "signMode", "sequence">>, NoBytes)
        ELSE IF ~InRange(sigs, idx)
        THEN done("panic",
                  <<"caller", "signerData", "txData", "signMode", "sequence",
                    "signature">>, NoBytes)
        ELSE IF sb.err # ""
        THEN done(sb.err,
                  <<"caller", "signerData", "txData", "signMode", "sequence",
                    "signature", "signBytes">>, NoBytes)
        ELSE IF signatureRejected(pk, sb.bytes, signature)
        THEN done("SignatureInvalid",
                  <<"caller", "signerData", "txData", "signMode", "sequence",
                    "signature", "signBytes", "verify">>, sb.bytes)
        ELSE done("ok",
                  <<"caller", "signerData", "txData", "signMode", "sequence",
                    "signature", "signBytes", "verify">>, sb.bytes)

\* Account.Authenticate from getTxData to the end, given what
\* computeSignerData returned.
authenticateTail(msg, pk, signerData) ==
    LET td == getTxData(msg)
        infos == msg.Tx.AuthInfo.SignerInfos
        sigs == msg.Tx.Signatures
        idx == msg.SignerIndex
        gotSeq == At(infos, idx).Sequence
        sm == parseSignMode(At(infos, idx).ModeInfo)
        signature == At(sigs, idx)
        sb == GetSignBytes(sm.mode, signerData, td.txData)
        done(r, steps, bytes) == Outcome(r, steps, pk, signerData, td.txData, bytes)
    IN  IF td.err # "" THEN done(td.err, <<"caller", "signerData", "txData">>, NoBytes)
        ELSE IF ~InRange(infos, idx)
        THEN done("panic", <<"caller", "signerData", "txData", "sequence">>, NoBytes)
        ELSE IF sequenceMismatch(gotSeq, signerData)
        THEN done("SequenceMismatch",
                  <<"caller", "signerData", "txData", "sequence">>, NoBytes)
        ELSE IF sm.outcome = "panic"
        THEN done("panic",
                  <<"caller", "signerData", "txData", "sequence", "signMode">>, NoBytes)
        ELSE IF sm.outcome = "err"
        THEN done("ParseSignModeError",
                  <<"caller", "signerData", "txData", "sequence", "signMode">>, NoBytes)
        ELSE IF ~InRange(sigs, idx)
        THEN done("panic",
                  <<"caller", "signerData", "txData", "sequence", "signMode",
                    "signature">>, NoBytes)
        ELSE IF sb.err # ""
        THEN done(sb.err,
                  <<"caller", "signerData", "txData", "sequence", "signMode",
                    "signature", "signBytes">>, NoBytes)
        ELSE IF signatureRejected(pk, sb.bytes, signature)
        THEN done("SignatureInvalid",
                  <<"caller", "signerData", "txData", "sequence", "signMode",
                    "signature", "signBytes", "verify">>, sb.bytes)
        ELSE done("ok",
                  <<"caller", "signerData", "txData", "sequence", "signMode",
                    "signature", "signBytes", "verify">>, sb.bytes)

Authenticate_RefundUnsupported(caller, acct, env, msg, seq, item) ==
    LET sd == computeSignerData(acct, env, seq, item)
        tail == authenticateTail(msg, sd.pk, sd.signerData)
        early(r, steps) ==
            Outcome(r, steps, ZeroPubKey, ZeroSignerData, ZeroTxData, NoBytes)
    IN  IF callerRejected(caller)
        THEN [out |-> early("Unauthorized", <<"caller">>),
              seqAfter |-> seq, consumed |-> NoSeq]
        ELSE IF sd.err # ""
        THEN [out |-> early(sd.err, <<"caller", "signerData">>),
              seqAfter |-> sd.seqAfter, consumed |-> sd.consumed]
        ELSE IF tail.result = "NoHandler"
        THEN [out |-> tail, seqAfter |-> seq, consumed |-> NoSeq]
        ELSE [out |-> tail, seqAfter |-> sd.seqAfter, consumed |-> sd.consumed]

\* Account.Authenticate: the whole call on a counter holding seq and a key item.
Authenticate(caller, acct, env, msg, seq, item) ==
    LET sd == computeSignerData(acct, env, seq, item)
        tail == authenticateTail(msg, sd.pk, sd.signerData)
        early(r, steps) ==
            Outcome(r, steps, ZeroPubKey, ZeroSignerData, ZeroTxData, NoBytes)
    IN  IF callerRejected(caller)
        THEN [out |-> early("Unauthorized", <<"caller">>),
              seqAfter |-> seq, consumed |-> NoSeq]
        ELSE IF sd.err # ""
        THEN [out |-> early(sd.err, <<"caller", "signerData">>),
              seqAfter |-> sd.seqAfter, consumed |-> sd.consumed]
        ELSE [out |-> tail, seqAfter |-> sd.seqAfter, consumed |-> sd.consumed]

\* The error kind of the taxonomy a result belongs to ("" for a result that is
\* none of them).
Kind(result) ==
    CASE result = "ok" -> "ok"
      [] result = "Unauthorized" -> "Unauthorized"
      [] result = "AccountNumberError" -> "AccountNotFound"
      [] result \in {"SequenceStoreError", "PubKeyStoreError"} -> "Unavailable"
      [] result = "SequenceMismatch" -> "SequenceMismatch"
      [] result \in {"ParseSignModeError", "NoHandler"} -> "UnsupportedSignMode"
      [] result = "SignatureInvalid" -> "SignatureInvalid"
      [] OTHER -> ""

\* ------------------------------------------------------------------ inputs
NoFault == [fault |-> "none"]
DirectInfo == [kind |-> "single", mode |-> "DIRECT"]
FillerInfo == [Sequence |-> 0, ModeInfo |-> DirectInfo]
FillerSig == Sign("pkOther", NoBytes)

\* The SignerData the key holder of acct signs over for sequence s.
SignerDataFor(acct, s) ==
    signerDataSuffix(NoFault, StoredKey[acct],
                     BytesToString(NoFault, Whoami(acct)).str, GetChainID, s).signerData

\* (number of signer-infos, number of signatures, SignerIndex)
Shapes ==
    {[n |-> 1, m |-> 1, idx |-> 0], [n |-> 2, m |-> 2, idx |-> 1],
     [n |-> 1, m |-> 1, idx |-> 1], [n |-> 2, m |-> 1, idx |-> 1],
     [n |-> 0, m |-> 0, idx |-> 0]}
NominalShape == [n |-> 1, m |-> 1, idx |-> 0]

AuthInfoBytesSet(claimed) ==
    {Encoded(AuthInfoOf(s), TRUE) : s \in Seqs}
    \cup {Encoded(AuthInfoOf(claimed), FALSE), Garbage}

SigChoices(claimed) ==
    {[kind |-> "own", seq |-> s] : s \in Seqs}
    \cup {[kind |-> "other", seq |-> claimed], [kind |-> "flipped", seq |-> claimed]}

\* The signature at SignerIndex: made by the account's key holder (or by
\* another key) over the sign-bytes of this transaction's raw bytes for
\* sequence sig.seq, in the mode the signer-info declares.
SignatureOf(acct, body, auth, modeInfo, sig) ==
    LET mode == IF modeInfo.kind = "single" THEN modeInfo.mode ELSE "DIRECT"
        bytes == HandlerSignBytes(mode, SignerDataFor(acct, sig.seq),
                                  [BodyBytes |-> body, AuthInfoBytes |-> auth])
    IN  CASE sig.kind = "own" -> Sign(StoredKey[acct], bytes)
          [] sig.kind = "other" -> Sign(AttackerKey, bytes)
          [] sig.kind = "flipped" -> Flip(Sign(StoredKey[acct], bytes))

\* aa_interface_v1.MsgAuthenticate
MkMsg(acct, body, auth, shape, claimed, modeInfo, sig) ==
    [RawTx |-> [BodyBytes |-> body, AuthInfoBytes |-> auth],
     Tx |->
       [AuthInfo |->
          [SignerInfos |->
             [i \in 1..shape.n |->
                IF i = shape.idx + 1
                THEN [Sequence |-> claimed, ModeInfo |-> modeInfo]
                ELSE FillerInfo]],
        Signatures |->
          [i \in 1..shape.m |->
             IF i = shape.idx + 1
             THEN SignatureOf(acct, body, auth, modeInfo, sig)
             ELSE FillerSig]],
     SignerIndex |-> shape.idx]

MkCall(caller, acct, fault, msg) ==
    [caller |-> caller, acct |-> acct, env |-> [fault |-> fault], msg |-> msg]

\* ------------------------------------------------------------------- state
VARIABLES
    Sequence,   \* Account.Sequence of each account
    PubKey,     \* Account.PubKey of each account
    log,        \* per account, the values Sequence.Next returned, in order
    phase,      \* "idle", or "returned" while a call's response is held
    last,       \* the call whose response is held
    prevOk,     \* per account, the sequence consumed by the attempt before,
                \* if that attempt succeeded; NoSeq otherwise
    procs       \* ConcSpec: the position and locals of each concurrent attempt

vars == <<Sequence, PubKey, log, phase, last, prevOk, procs>>

Procs == {1, 2}
IdleProc == [pc |-> "idle"]

NoCall == [none |-> TRUE]

Init ==
    /\ Sequence = [a \in Accounts |-> 0]
    /\ PubKey = StoredKey
    /\ log = [a \in Accounts |-> <<>>]
    /\ phase = "idle"
    /\ last = NoCall
    /\ prevOk = [a \in Accounts |-> NoSeq]
    /\ procs = [p \in Procs |-> IdleProc]

Call_SharedCounter(c) ==
    /\ phase = "idle"
    /\ Sequence[c.acct] < MaxSeq
    /\ \E r \in {Authenticate(c.caller, c.acct, c.env, c.msg,
                              Sequence[c.acct], PubKey[c.acct])} :
        /\ Sequence' = [a \in Accounts |-> r.seqAfter]
        /\ log' = IF r.consumed = NoSeq THEN log
                  ELSE [log EXCEPT ![c.acct] = Append(@, r.consumed)]
        /\ phase' = "returned"
        /\ last' = [caller |-> c.caller, acct |-> c.acct, env |-> c.env,
                    msg |-> c.msg, seqBefore |-> Sequence[c.acct],
                    seqAfter |-> r.seqAfter, consumed |-> r.consumed,
                    out |-> r.out]
        /\ UNCHANGED <<PubKey, prevOk, procs>>

\* One Authenticate call, dispatched to the account c.acct.
Call(c) ==
    /\ phase = "idle"
    /\ Sequence[c.acct] < MaxSeq
    /\ \E r \in {Authenticate(c.caller, c.acct, c.env, c.msg,
                              Sequence[c.acct], PubKey[c.acct])} :
        /\ Sequence' = [Sequence EXCEPT ![c.acct] = r.seqAfter]
        /\ log' = IF r.consumed = NoSeq THEN log
                  ELSE [log EXCEPT ![c.acct] = Append(@, r.consumed)]
        /\ phase' = "returned"
        /\ last' = [caller |-> c.caller, acct |-> c.acct, env |-> c.env,
                    msg |-> c.msg, seqBefore |-> Sequence[c.acct],
                    seqAfter |-> r.seqAfter, consumed |-> r.consumed,
                    out |-> r.out]
        /\ UNCHANGED <<PubKey, prevOk, procs>>

\* The caller takes the response.
Return ==
    /\ phase = "returned"
    /\ phase' = "idle"
    /\ last' = NoCall
    /\ prevOk' = [prevOk EXCEPT ![last.acct] =
                    IF last.out.result = "ok" THEN last.consumed ELSE NoSeq]
    /\ UNCHANGED <<Sequence, PubKey, log, procs>>

\* The calls below are by the accounts module with every collaborator working.
\* The signer-info and the signature vary: claimed sequence, mode descriptor,
\* who signed and for which sequence.
SignerInfoCall ==
    \E acct \in Accounts, modeInfo \in ModeInfos, claimed \in Seqs :
        \E sig \in SigChoices(claimed) :
            \E c \in {MkCall(AccountsModule, acct, "none",
                            MkMsg(acct, Encoded(TheBody, TRUE),
                                  Encoded(AuthInfoOf(claimed), TRUE), NominalShape,
                                  claimed, modeInfo, sig))} :
                Call(c)

\* The raw byte strings vary: canonical or not, undecodable, and an auth-info
\* that encodes another sequence than the signer-info claims.
RawBytesCall ==
    \E acct \in Accounts, body \in BodyBytesSet, claimed \in Seqs,
       modeInfo \in {DirectInfo, [kind |-> "multi"]} :
        \E auth \in AuthInfoBytesSet(claimed), sig \in SigChoices(claimed) :
            \E c \in {MkCall(AccountsModule, acct, "none",
                            MkMsg(acct, body, auth, NominalShape, claimed,
                                  modeInfo, sig))} :
                Call(c)

\* The lengths of the signer-info and signature lists and SignerIndex vary.
ShapeCall ==
    \E acct \in Accounts, shape \in Shapes, modeInfo \in ModeInfos,
       claimed \in Seqs, body \in {Encoded(TheBody, TRUE), Garbage},
       sigKind \in {"own", "flipped"} :
        \E c \in {MkCall(AccountsModule, acct, "none",
                        MkMsg(acct, body, Encoded(AuthInfoOf(claimed), TRUE), shape,
                              claimed, modeInfo,
                              [kind |-> sigKind, seq |-> claimed]))} :
            Call(c)

\* A call by any caller under any collaborator fault, the message varying in
\* the fields the later steps read.
EnvCall ==
    \E caller \in Callers, acct \in Accounts, fault \in Faults,
       body \in {Encoded(TheBody, TRUE), Garbage}, claimed \in Seqs,
       modeInfo \in {DirectInfo, [kind |-> "multi"]}, sigKind \in {"own", "flipped"} :
        \E c \in {MkCall(caller, acct, fault,
                        MkMsg(acct, body, Encoded(AuthInfoOf(claimed), TRUE),
                              NominalShape, claimed, modeInfo,
                              [kind |-> sigKind, seq |-> claimed]))} :
            Call(c)

Next ==
    \/ SignerInfoCall
    \/ RawBytesCall
    \/ ShapeCall
    \/ EnvCall
    \/ Return

Spec == Init /\ [][Next]_vars

\* ------------------------------------------------- concurrent attempts
\* Two attempts on one account, dispatched without serialization: a call is
\* split at computeSignerData's sequence step, the one step that writes.
ConcAccount == "a1"

Finished(call, out, wantSequence) ==
    [pc |-> "done", call |-> call, wantSequence |-> wantSequence, out |-> out]

Failed(call, result, steps, wantSequence) ==
    Finished(call,
             Outcome(result, steps, ZeroPubKey, ZeroSignerData, ZeroTxData, NoBytes),
             wantSequence)

\* Authenticate up to the sequence step: the caller check, the address
\* string and the chain id.
Begin(p, c) ==
    /\ procs[p].pc = "idle"
    /\ Sequence[c.acct] + Cardinality({q \in Procs : procs[q].pc = "seq"}) < MaxSeq
    /\ \E pre \in {signerDataPrefix(c.acct, c.env)} :
         procs' = [procs EXCEPT ![p] =
            IF callerRejected(c.caller)
            THEN Failed(c, "Unauthorized", <<"caller">>, NoSeq)
            ELSE IF pre.err # ""
            THEN Failed(c, pre.err, <<"caller", "signerData">>, NoSeq)
            ELSE [pc |-> "seq", call |-> c, addrStr |-> pre.addrStr,
                  chainID |-> pre.chainID]]
    /\ UNCHANGED <<Sequence, PubKey, log, phase, last, prevOk>>

\* computeSignerData's sequence step.
SeqStep(p) ==
    /\ procs[p].pc = "seq"
    /\ \E c \in {procs[p].call} :
       \E nxt \in {nextSequence(c.env, Sequence[c.acct])} :
         /\ Sequence' = [Sequence EXCEPT ![c.acct] = nxt.stored]
         /\ log' = IF nxt.err # "" THEN log
                   ELSE [log EXCEPT ![c.acct] = Append(@, nxt.value)]
         /\ procs' = [procs EXCEPT ![p] =
               IF nxt.err # ""
               THEN Failed(c, nxt.err, <<"caller", "signerData">>, NoSeq)
               ELSE [pc |-> "tail", call |-> c, addrStr |-> procs[p].addrStr,
                     chainID |-> procs[p].chainID, wantSequence |-> nxt.value]]
    /\ UNCHANGED <<PubKey, phase, last, prevOk>>

\* The rest of computeSignerData and of Authenticate.
Finish(p) ==
    /\ procs[p].pc = "tail"
    /\ \E c \in {procs[p].call} :
       \E suf \in {signerDataSuffix(c.env, PubKey[c.acct], procs[p].addrStr,
                                    procs[p].chainID, procs[p].wantSequence)} :
         procs' = [procs EXCEPT ![p] =
            IF suf.err # ""
            THEN Failed(c, suf.err, <<"caller", "signerData">>, procs[p].wantSequence)
            ELSE Finished(c, authenticateTail(c.msg, suf.pk, suf.signerData),
                          procs[p].wantSequence)]
    /\ UNCHANGED <<Sequence, PubKey, log, phase, last, prevOk>>

\* The caller takes the response of attempt p.
Retire(p) ==
    /\ procs[p].pc = "done"
    /\ procs' = [procs EXCEPT ![p] = IdleProc]
    /\ UNCHANGED <<Sequence, PubKey, log, phase, last, prevOk>>

ConcCall(p) ==
    \E caller \in Callers, fault \in {"none", "seq", "accnum"}, claimed \in Seqs :
        \E c \in {MkCall(caller, ConcAccount, fault,
                         MkMsg(ConcAccount, Encoded(TheBody, TRUE),
                               Encoded(AuthInfoOf(claimed), TRUE), NominalShape,
                               claimed, DirectInfo,
                               [kind |-> "own", seq |-> claimed]))} :
            Begin(p, c)

ConcNext ==
    \E p \in Procs :
        \/ ConcCall(p)
        \/ SeqStep(p)
        \/ Finish(p)
        \/ Retire(p)

ConcSpec == Init /\ [][ConcNext]_vars

\* ------------------------------------------------------ the call being held
Returned == phase = "returned"
LastInfos == last.msg.Tx.AuthInfo.SignerInfos
LastSigs == last.msg.Tx.Signatures
LastIdx == last.msg.SignerIndex
LastInfo == At(LastInfos, LastIdx)
LastSig == At(LastSigs, LastIdx)
Privileged == last.caller = AccountsModule
CollaboratorsWork == last.env.fault = "none"
RawDecodes ==
    /\ ~last.msg.RawTx.BodyBytes.garbage
    /\ ~last.msg.RawTx.AuthInfoBytes.garbage
IndexValid == InRange(LastInfos, LastIdx) /\ InRange(LastSigs, LastIdx)
\* The sign-bytes of the request's raw byte strings for the account's signer
\* data at the counter value the call started from, in the declared mode.
RawSignBytesIn(mode) ==
    [mode |-> mode,
     signer |-> SignerDataFor(last.acct, last.seqBefore),
     body |-> last.msg.RawTx.BodyBytes,
     authInfo |-> last.msg.RawTx.AuthInfoBytes]
RawSignBytes == RawSignBytesIn(LastInfo.ModeInfo.mode)
SupportedSingle ==
    /\ LastInfo.ModeInfo.kind = "single"
    /\ LastInfo.ModeInfo.mode \in RegisteredModes
SignedBy(sig, key, bytes) == sig.signer = key /\ sig.over = bytes /\ ~sig.flipped

\* ------------------------------------------------------------------ claims

\* C1: a call succeeds only if the caller is the accounts module, the sequence
\* claimed at SignerIndex equals the counter before the call, the mode at
\* SignerIndex is single with a registered handler, and the signature at
\* SignerIndex verifies under the stored key over the handler's sign-bytes.
C1_SuccessOnlyIfAllChecksPass ==
    (Returned /\ last.out.result = "ok") =>
        /\ last.caller = AccountsModule
        /\ IndexValid
        /\ LastInfo.Sequence = last.seqBefore
        /\ SupportedSingle
        /\ last.out.signBytes =
             HandlerSignBytes(LastInfo.ModeInfo.mode, last.out.signerData,
                              last.out.txData)
        /\ last.out.signerData.Sequence = last.seqBefore
        /\ SignedBy(LastSig, PubKey[last.acct], last.out.signBytes)

C1_Witness ==
    /\ Returned
    /\ last.out.result = "ok"
    /\ last.seqBefore = 1
    /\ LastIdx = 1

\* C2: a successful call never claims a sequence number that an earlier
\* attempt on the account, successful or failed, already consumed.
C2_NoReplayOfConsumedSequence ==
    (Returned /\ last.out.result = "ok") =>
        \A i \in 1..(Len(log[last.acct]) - 1) :
            log[last.acct][i] # LastInfo.Sequence

\* A signature made for sequence 0 is presented again, claiming 0, after an
\* attempt that consumed 0, and is rejected.
C2_Witness ==
    /\ Returned
    /\ Privileged /\ CollaboratorsWork /\ RawDecodes /\ IndexValid
    /\ SupportedSingle
    /\ Len(log[last.acct]) = 2
    /\ LastInfo.Sequence = log[last.acct][1]
    /\ LastSig.signer = PubKey[last.acct]
    /\ ~LastSig.flipped
    /\ LastSig.over.signer.Sequence = LastInfo.Sequence
    /\ last.out.result = "SequenceMismatch"

\* C3: a call by any caller other than the accounts module fails with
\* Unauthorized and changes neither the counter nor any other account state.
C3_UnauthorizedTouchesNothing ==
    [][(phase = "idle" /\ phase' = "returned" /\ last'.caller # AccountsModule) =>
          /\ last'.out.result = "Unauthorized"
          /\ Sequence' = Sequence
          /\ PubKey' = PubKey
          /\ log' = log]_vars

C3_Witness ==
    /\ Returned
    /\ last.caller # AccountsModule
    /\ last.seqBefore = 1
    /\ IndexValid /\ SupportedSingle /\ RawDecodes
    /\ LastInfo.Sequence = last.seqBefore
    /\ SignedBy(LastSig, PubKey[last.acct], RawSignBytes)
    /\ last.out.result = "Unauthorized"
    /\ Sequence[last.acct] = 1

\* C4 as stated: every call by the accounts module whose claimed sequence
\* differs from the counter is rejected with SequenceMismatch and leaves the
\* counter one greater.
C4_Original ==
    (Returned /\ Privileged /\ InRange(LastInfos, LastIdx)
       /\ LastInfo.Sequence # last.seqBefore) =>
        /\ last.out.result = "SequenceMismatch"
        /\ Sequence[last.acct] = last.seqBefore + 1

\* C4 amended: when signer-data assembly and transaction decoding succeed, a
\* call by the accounts module whose claimed sequence at a valid SignerIndex
\* differs from the counter is rejected with SequenceMismatch and leaves the
\* counter exactly one greater (not at the claimed value); without that
\* proviso the call is still never accepted.
C4_SequenceMismatchBurnsOne ==
    (Returned /\ Privileged /\ InRange(LastInfos, LastIdx)
       /\ LastInfo.Sequence # last.seqBefore) =>
        /\ last.out.result # "ok"
        /\ (CollaboratorsWork /\ RawDecodes) =>
              /\ last.out.result = "SequenceMismatch"
              /\ last.consumed = last.seqBefore
              /\ Sequence[last.acct] = last.seqBefore + 1

C4_Witness ==
    /\ Returned /\ Privileged /\ CollaboratorsWork /\ RawDecodes
    /\ last.seqBefore = 0
    /\ IndexValid
    /\ LastInfo.Sequence = 2
    /\ last.out.result = "SequenceMismatch"
    /\ Sequence[last.acct] = 1

\* C5 as stated: a call whose SignerIndex is out of range of the signer-info
\* list (or the signature list) is rejected with MalformedRequest and leaves
\* the counter unchanged.
C5_OutOfRangeIsMalformedRequest ==
    (Returned /\ Privileged /\ CollaboratorsWork /\ RawDecodes /\ ~IndexValid) =>
        /\ last.out.result = "MalformedRequest"
        /\ Sequence[last.acct] = last.seqBefore

\* C6 as stated: every call whose mode descriptor at SignerIndex is not a
\* single-signer descriptor is rejected with UnsupportedSignMode.
C6_Original ==
    (Returned /\ Privileged /\ CollaboratorsWork /\ RawDecodes
       /\ InRange(LastInfos, LastIdx)
       /\ LastInfo.ModeInfo.kind \in {"multi", "unset"}) =>
        Kind(last.out.result) = "UnsupportedSignMode"

\* C6 amended: no call whose mode descriptor at SignerIndex is not a
\* single-signer descriptor ever succeeds; and when the caller is the accounts
\* module, signer-data assembly and decoding succeed and the claimed sequence
\* matches, a Multi or unset descriptor is rejected with UnsupportedSignMode
\* whatever the signature is (valid, invalid or missing).
C6_NonSingleModeRejected ==
    (Returned /\ InRange(LastInfos, LastIdx) /\ ~IsSingle(LastInfo.ModeInfo)) =>
        /\ last.out.result # "ok"
        /\ (Privileged /\ CollaboratorsWork /\ RawDecodes
              /\ LastInfo.Sequence = last.seqBefore
              /\ LastInfo.ModeInfo.kind \in {"multi", "unset"}) =>
                 Kind(last.out.result) = "UnsupportedSignMode"

\* A Multi descriptor beside a signature that would verify in DIRECT mode.
C6_Witness ==
    /\ Returned /\ Privileged /\ IndexValid
    /\ LastInfo.ModeInfo.kind = "multi"
    /\ LastInfo.Sequence = last.seqBefore
    /\ SignedBy(LastSig, PubKey[last.acct], RawSignBytesIn("DIRECT"))
    /\ last.out.result = "ParseSignModeError"

\* C7 as stated: every error other than Unauthorized and MalformedRequest
\* leaves the counter advanced by exactly one.
C7_Original ==
    (Returned /\ last.out.result \notin {"ok", "panic", "Unauthorized"}) =>
        Sequence[last.acct] = last.seqBefore + 1

\* C7 amended: every error returned after the sequence step has succeeded
\* (public-key read, Any packing, account-number lookup, decoding,
\* SequenceMismatch, UnsupportedSignMode, SignatureInvalid) leaves the counter
\* advanced by exactly one; an error of the address conversion or of the
\* sequence store itself is returned with the counter unchanged.
C7_ErrorsAfterSequenceStepBurnOne ==
    (Returned /\ last.out.result \notin {"ok", "panic", "Unauthorized"}) =>
        IF last.out.result \in {"AddressCodecError", "SequenceStoreError"}
        THEN Sequence[last.acct] = last.seqBefore /\ last.consumed = NoSeq
        ELSE Sequence[last.acct] = last.seqBefore + 1
             /\ last.consumed = last.seqBefore

C7_Witness ==
    /\ Returned
    /\ last.out.result = "PubKeyStoreError"
    /\ last.seqBefore = 1
    /\ Sequence[last.acct] = 2

\* C9: a call by the accounts module for which SignerData and TxData are
\* produced, whose claimed sequence equals the counter, whose mode is a
\* registered single-signer mode and whose signature is valid for the stored
\* key over the sign-bytes succeeds and leaves the counter one greater; with a
\* signature that does not verify it fails with SignatureInvalid.
C9_ValidSignatureAuthenticates ==
    (Returned /\ Privileged /\ CollaboratorsWork /\ RawDecodes /\ IndexValid
       /\ LastInfo.Sequence = last.seqBefore /\ SupportedSingle) =>
        IF SignedBy(LastSig, PubKey[last.acct], RawSignBytes)
        THEN last.out.result = "ok" /\ Sequence[last.acct] = last.seqBefore + 1
        ELSE last.out.result = "SignatureInvalid"

\* Raw bytes in a non-canonical encoding, signed as they are.
C9_Witness ==
    /\ Returned /\ Privileged /\ CollaboratorsWork /\ RawDecodes /\ IndexValid
    /\ LastInfo.Sequence = last.seqBefore /\ SupportedSingle
    /\ ~last.msg.RawTx.BodyBytes.canonical
    /\ SignedBy(LastSig, PubKey[last.acct], RawSignBytes)
    /\ last.seqBefore = 1
    /\ last.out.result = "ok"
    /\ Sequence[last.acct] = 2

\* C10: when a call succeeds and the attempt on the same account directly
\* before it succeeded too, consuming s, the call consumes s + 1.
C10_ConsecutiveSuccessesConsecutiveSequences ==
    (Returned /\ last.out.result = "ok" /\ prevOk[last.acct] # NoSeq) =>
        last.consumed = prevOk[last.acct] + 1

C10_Witness ==
    /\ Returned
    /\ last.out.result = "ok"
    /\ prevOk[last.acct] = 0
    /\ last.consumed = 1

\* C8: with two attempts on one account interleaved, the sequence step is a
\* fetch-and-increment: attempts that hold a sequence number hold distinct
\* ones, no number is handed out twice, and the counter has advanced by
\* exactly the number of attempts that passed the step.
C8_ConcurrentAttemptsGetDistinctSequences ==
    /\ \A p, q \in Procs :
          (p # q /\ procs[p].pc \in {"tail", "done"} /\ procs[q].pc \in {"tail", "done"}
             /\ procs[p].wantSequence # NoSeq /\ procs[q].wantSequence # NoSeq) =>
              procs[p].wantSequence # procs[q].wantSequence
    /\ \A i, j \in 1..Len(log[ConcAccount]) :
          i # j => log[ConcAccount][i] # log[ConcAccount][j]
    /\ Sequence[ConcAccount] = Len(log[ConcAccount])

\* Both attempts were dispatched before either reached the sequence step, and
\* both have passed it.
C8_Witness ==
    /\ procs[1].pc = "tail"
    /\ procs[2].pc = "tail"
    /\ procs[1].wantSequence = 1
    /\ procs[2].wantSequence = 0
    /\ Sequence[ConcAccount] = 2

\* C11 as stated: every call that gets past the precondition checks (the
\* caller is the accounts module, SignerIndex is valid) advances the counter
\* exactly once.
C11_Original ==
    (Returned /\ Privileged /\ IndexValid) =>
        Sequence[last.acct] = last.seqBefore + 1

\* C11 amended: the counter never decreases and a call changes it by 0 or by
\* exactly 1; it advances, exactly once, in the calls in which
\* computeSignerData's sequence step returns a value (the caller is the
\* accounts module, the address conversion and the sequence store work),
\* whether the call then succeeds or fails, and is unchanged in every other.
C11_CounterAdvancesAtMostOncePerCall ==
    [][/\ \A a \in Accounts : Sequence'[a] \in {Sequence[a], Sequence[a] + 1}
       /\ (phase = "idle" /\ phase' = "returned") =>
             /\ (last'.consumed # NoSeq) <=>
                   (last'.caller = AccountsModule
                      /\ last'.env.fault \notin {"addr", "seq"})
             /\ Sequence'[last'.acct] =
                   Sequence[last'.acct] + (IF last'.consumed # NoSeq THEN 1 ELSE 0)]_vars

C11_Witness ==
    /\ Returned
    /\ last.out.result = "SignatureInvalid"
    /\ last.seqBefore = 1
    /\ last.consumed = 1
    /\ Sequence[last.acct] = 2

\* The steps of a call in the order of the code; "signature" is the fetch of
\* the signature at SignerIndex, between mode resolution and sign-bytes.
StepOrder ==
    <<"caller", "signerData", "txData", "sequence", "signMode", "signature",
      "signBytes", "verify">>

\* Whether a step of the held call cannot pass, judged from the request, the
\* collaborators and the counter before the call alone.
StepFails(step) ==
    CASE step = "caller" -> ~Privileged
      [] step = "signerData" -> ~CollaboratorsWork
      [] step = "txData" -> ~RawDecodes
      [] step = "sequence" ->
            ~InRange(LastInfos, LastIdx) \/ LastInfo.Sequence # last.seqBefore
      [] step = "signMode" ->
            InRange(LastInfos, LastIdx) /\ LastInfo.ModeInfo.kind # "single"
      [] step = "signature" -> ~InRange(LastSigs, LastIdx)
      [] step = "signBytes" ->
            InRange(LastInfos, LastIdx) /\ LastInfo.ModeInfo.kind = "single"
              /\ LastInfo.ModeInfo.mode \notin RegisteredModes
      [] step = "verify" ->
            IndexValid /\ LastInfo.ModeInfo.kind = "single"
              /\ ~SignedBy(LastSig, PubKey[last.acct], RawSignBytes)

\* The position in StepOrder of the first step that fails, 0 if none does.
FirstFailing ==
    LET failing == {i \in DOMAIN StepOrder : StepFails(StepOrder[i])}
    IN  IF failing = {} THEN 0
        ELSE CHOOSE i \in failing : \A j \in failing : i <= j

\* The results with which a call ends at a step.
ResultsOf(step) ==
    CASE step = "caller" -> {"Unauthorized"}
      [] step = "signerData" ->
            {"AddressCodecError", "SequenceStoreError", "PubKeyStoreError",
             "PackAnyError", "AccountNumberError"}
      [] step = "txData" -> {"DecodeError"}
      [] step = "sequence" -> {"SequenceMismatch", "panic"}
      [] step = "signMode" -> {"ParseSignModeError", "panic"}
      [] step = "signature" -> {"panic"}
      [] step = "signBytes" -> {"NoHandler"}
      [] step = "verify" -> {"SignatureInvalid"}

\* C12: a call ends at the first step, in the order caller check, signer-data
\* assembly, transaction decoding, sequence comparison, sign-mode resolution,
\* sign-bytes production, signature verification, that fails, with that
\* step's error; the steps it ran are exactly those up to that one.
C12_FirstFailingStepDecides ==
    Returned =>
        IF FirstFailing = 0
        THEN last.out.result = "ok" /\ last.out.steps = StepOrder
        ELSE /\ last.out.result \in ResultsOf(StepOrder[FirstFailing])
             /\ last.out.steps = SubSeq(StepOrder, 1, FirstFailing)

\* A mismatching sequence together with a composite mode: SequenceMismatch.
C12_Witness ==
    /\ Returned /\ Privileged /\ CollaboratorsWork /\ RawDecodes /\ IndexValid
    /\ LastInfo.Sequence # last.seqBefore
    /\ LastInfo.ModeInfo.kind = "multi"
    /\ last.out.result = "SequenceMismatch"
    /\ last.out.steps = <<"caller", "signerData", "txData", "sequence">>

\* The results a call hands back to its caller: the empty response or an
\* error value.  A run-time panic is not among them.
ReturnedResults ==
    {"ok", "Unauthorized", "AddressCodecError", "SequenceStoreError",
     "PubKeyStoreError", "PackAnyError", "AccountNumberError", "DecodeError",
     "SequenceMismatch", "ParseSignModeError", "NoHandler", "SignatureInvalid"}

\* C13: every call ends with exactly one outcome, the empty success response
\* or a reported error; none ends in an abnormal abort.
C13_EveryCallEndsInReportedOutcome ==
    Returned => last.out.result \in ReturnedResults

\* C14: a call modifies nothing but the sequence counter of the account it
\* authenticates: every stored public key, and the counter of every other
\* account, is the same after the call as before it.
C14_OnlyOwnCounterChanges ==
    [][/\ PubKey' = PubKey
       /\ \A a \in Accounts :
            Sequence'[a] # Sequence[a] =>
                (phase = "idle" /\ phase' = "returned" /\ last'.acct = a)]_vars

\* a1 consumed a sequence while a2's counter stands at a different value.
C14_Witness ==
    /\ Returned
    /\ last.acct = "a1"
    /\ last.consumed = 1
    /\ Sequence["a1"] = 2
    /\ Sequence["a2"] = 1
    /\ PubKey = StoredKey

\* The held call got as far as asking the handler for sign bytes.
HandlerCalled ==
    \E i \in DOMAIN last.out.steps : last.out.steps[i] = "signBytes"

\* C15: the SignerData handed to the sign-mode handler carries the account's
\* own address string, the chain id of the header source, the account number
\* the registry holds for that address, the stored public key as a typed
\* value, and as Sequence the counter value before this call's increment: the
\* counter after the call is that Sequence plus one, and the claimed sequence
\* was compared against it.
C15_SignerDataIsTheAccountsOwn ==
    /\ (Returned /\ HandlerCalled) =>
          LET sd == last.out.signerData
          IN  /\ sd.Address = BytesToString(NoFault, Whoami(last.acct)).str
              /\ sd.ChainID = GetChainID
              /\ sd.AccountNumber = RegistryNumber(sd.Address)
              /\ sd.PubKey.TypeUrl = "/cosmos.crypto.secp256k1.PubKey"
              /\ Unmarshal(sd.PubKey.Value).value = PubKey[last.acct]
              /\ sd.Sequence = last.seqBefore
              /\ Sequence[last.acct] = sd.Sequence + 1
              /\ LastInfo.Sequence = sd.Sequence
              /\ last.out.signBytes # NoBytes => last.out.signBytes.signer = sd
    /\ (Returned /\ last.out.result = "SequenceMismatch") =>
          /\ last.out.signerData.Sequence = last.seqBefore
          /\ LastInfo.Sequence # last.seqBefore

\* a2 authenticates at sequence 1: its SignerData carries number 12, sequence 1.
C15_Witness ==
    /\ Returned
    /\ last.acct = "a2"
    /\ last.out.result = "ok"
    /\ last.out.signerData.Address = "cosmos1a2"
    /\ last.out.signerData.AccountNumber = 12
    /\ last.out.signerData.Sequence = 1
    /\ Sequence["a2"] = 2

\* The held call ran the signature verification.
VerifyRan ==
    \E i \in DOMAIN last.out.steps : last.out.steps[i] = "verify"

\* C16: the TxData given to the handler holds, as BodyBytes and
\* AuthInfoBytes, exactly the raw byte strings of the request, never a
\* re-encoding of the decoded bodies; and when either raw string does not
\* decode, the call fails with the sequence consumed and no signature
\* verification.
C16_TxDataCarriesRawBytes ==
    /\ (Returned /\ Privileged /\ CollaboratorsWork /\ RawDecodes) =>
          /\ last.out.txData.BodyBytes = last.msg.RawTx.BodyBytes
          /\ last.out.txData.AuthInfoBytes = last.msg.RawTx.AuthInfoBytes
          /\ last.out.txData.Body = Unmarshal(last.msg.RawTx.BodyBytes).value
          /\ last.out.txData.AuthInfo = Unmarshal(last.msg.RawTx.AuthInfoBytes).value
          /\ last.out.signBytes # NoBytes =>
                /\ last.out.signBytes.body = last.msg.RawTx.BodyBytes
                /\ last.out.signBytes.authInfo = last.msg.RawTx.AuthInfoBytes
    /\ (Returned /\ Privileged /\ CollaboratorsWork /\ ~RawDecodes) =>
          /\ last.out.result = "DecodeError"
          /\ last.consumed = last.seqBefore
          /\ Sequence[last.acct] = last.seqBefore + 1
          /\ ~VerifyRan

\* A request whose raw bytes are not the canonical encoding is verified over
\* those very bytes.
C16_Witness ==
    /\ Returned
    /\ last.out.result = "ok"
    /\ ~last.msg.RawTx.BodyBytes.canonical
    /\ ~last.msg.RawTx.AuthInfoBytes.canonical
    /\ last.out.signBytes.body = last.msg.RawTx.BodyBytes
    /\ last.out.signBytes.authInfo # Marshal(last.out.txData.AuthInfo)

\* C17: a call that gets as far as a single-signer mode for which no handler
\* is registered fails with UnsupportedSignMode, the signature is not
\* verified, and the counter is nevertheless advanced by one.
C17_NoHandlerIsUnsupportedSignMode ==
    (Returned /\ Privileged /\ CollaboratorsWork /\ RawDecodes /\ IndexValid
       /\ LastInfo.Sequence = last.seqBefore
       /\ LastInfo.ModeInfo.kind = "single"
       /\ LastInfo.ModeInfo.mode \notin RegisteredModes) =>
        /\ last.out.result = "NoHandler"
        /\ Kind(last.out.result) = "UnsupportedSignMode"
        /\ ~VerifyRan
        /\ last.out.signBytes = NoBytes
        /\ last.consumed = last.seqBefore
        /\ Sequence[last.acct] = last.seqBefore + 1

\* A LEGACY_AMINO_JSON signer-info with an altered signature, at sequence 1.
C17_Witness ==
    /\ Returned /\ Privileged /\ IndexValid
    /\ LastInfo.ModeInfo.kind = "single"
    /\ LastInfo.ModeInfo.mode = "LEGACY_AMINO_JSON"
    /\ LastSig.flipped
    /\ last.out.result = "NoHandler"
    /\ last.seqBefore = 1
    /\ Sequence[last.acct] = 2

\* C18: a call succeeds only if the signer-info encoded in the raw auth-info
\* bytes, which the signature covers, carries the sequence that was compared
\* with the counter, the one of the decoded Tx.AuthInfo: a request whose Tx
\* and RawTx disagree on the signer's sequence never authenticates.
C18_CheckedSequenceIsTheSignedOne ==
    (Returned /\ last.out.result = "ok") =>
        Unmarshal(last.msg.RawTx.AuthInfoBytes).value.signerSequence =
            LastInfo.Sequence
=============================================================================
